---- MODULE Spec2Model ----
(***************************************************************************)
(* A model of the jwt package: the base64url segment codec, token          *)
(* construction and signing (token.go), the parser options (ParserOption), *)
(* the request adapter (request/request.go) and the                        *)
(* verification pipeline of the Parser as the specification describes it.  *)
(*                                                                         *)
(* Text is a sequence of character codes: 0..63 are the 64 characters of   *)
(* the base64url alphabet (the code is the character's 6-bit value), and   *)
(* PadChar, NewLine, Dot and BadChar are '=', '\n', '.' and any other      *)
(* character.  Bytes are the numbers 0..255.                               *)
(***************************************************************************)
EXTENDS Integers, Sequences, FiniteSets, TLC

VARIABLES
    DecodePaddingAllowed, \* the package-level padding flag
    TimeFunc,             \* the package-level clock: the value TimeFunc() returns
    pc,                   \* where the calling program is
    tok,                  \* the Token built by New / NewWithClaims
    wire,                 \* the compact token string handed to the parser
    wireInfo,             \* how the string in wire was produced
    call,                 \* the arguments of the last parse call
    res,                  \* what the last parse call returned
    b,                    \* codec: the bytes to encode
    seg,                  \* codec: a segment to decode
    encoded,              \* codec: what EncodeSegment returned for b
    decoded               \* codec: what the last DecodeSegment call returned

vars == <<DecodePaddingAllowed, TimeFunc, pc, tok, wire, wireInfo, call,
          res, b, seg, encoded, decoded>>

tokenVars == <<TimeFunc, pc, tok, wire, wireInfo, call, res>>
codecVars == <<b, seg, encoded, decoded>>

----------------------------------------------------------------------------
(* Bounds of the model. *)

\* the longest byte sequence the codec specification encodes
MaxBytes == 4
\* the longest segment the codec specification decodes
MaxSegLen == 4
\* the latest time a claim carries; the clock reads 1..MaxTime
MaxTime == 2

----------------------------------------------------------------------------
(* Characters. *)

PadChar == 64
NewLine == 65
Dot == 66
BadChar == 67

\* The byte values the codec specification draws its inputs from.
ByteSample == {0, 1, 85, 128, 170, 255}
\* The characters the codec specification draws its segments from.
CharSample == {0, 16, 63, PadChar, NewLine, BadChar}

RECURSIVE SeqsUpTo(_, _)
SeqsUpTo(S, n) ==
    IF n = 0 THEN {<<>>}
    ELSE LET shorter == SeqsUpTo(S, n - 1)
         IN  shorter \cup {Append(s, x) : s \in shorter, x \in S}

Range(s) == {s[i] : i \in 1..Len(s)}

RECURSIVE Repeat(_, _)
Repeat(c, n) == IF n <= 0 THEN <<>> ELSE <<c>> \o Repeat(c, n - 1)

----------------------------------------------------------------------------
(* encoding/base64 as token.go uses it. *)

\* base64.RawURLEncoding.EncodeToString: 3 bytes make 4 characters, a
\* remainder of 1 byte makes 2 and of 2 bytes makes 3; no padding.
RECURSIVE RawURLEncodeToString(_)
RawURLEncodeToString(src) ==
    IF Len(src) = 0 THEN <<>>
    ELSE IF Len(src) = 1 THEN
        <<src[1] \div 4, (src[1] % 4) * 16>>
    ELSE IF Len(src) = 2 THEN
        <<src[1] \div 4, (src[1] % 4) * 16 + src[2] \div 16, (src[2] % 16) * 4>>
    ELSE
        <<src[1] \div 4, (src[1] % 4) * 16 + src[2] \div 16,
          (src[2] % 16) * 4 + src[3] \div 64, src[3] % 64>>
        \o RawURLEncodeToString(SubSeq(src, 4, Len(src)))

\* base64.URLEncoding.EncodeToString: the same characters, padded with '='
\* to a multiple of 4.  This is what the non-standard producers that
\* DecodePaddingAllowed exists for emit.
URLEncodeToString(src) ==
    LET raw == RawURLEncodeToString(src)
    IN  raw \o Repeat(PadChar, (4 - (Len(raw) % 4)) % 4)

\* The index of the first character at or after si that is no new line.
RECURSIVE SkipNewLines(_, _)
SkipNewLines(src, si) ==
    IF si <= Len(src) /\ src[si] = NewLine THEN SkipNewLines(src, si + 1) ELSE si

\* The bytes of a quantum of dlen characters (dlen in 2..4): dlen - 1 bytes.
\* The encodings are not strict: left-over bits are dropped.
QuantumBytes(dbuf, dlen) ==
    LET d(i) == IF i <= Len(dbuf) THEN dbuf[i] ELSE 0
        b1 == d(1) * 4 + d(2) \div 16
        b2 == (d(2) % 16) * 16 + d(3) \div 4
        b3 == (d(3) % 4) * 64 + d(4)
    IN  SubSeq(<<b1, b2, b3>>, 1, dlen - 1)

\* Encoding.decodeQuantum: reads up to 4 alphabet characters from src[si..],
\* skipping new lines.  padded is whether the encoding has a padding
\* character.  Returns the next index, the bytes and whether it failed.
RECURSIVE decodeQuantum(_, _, _, _)
decodeQuantum(padded, src, si, dbuf) ==
    LET j == Len(dbuf)
        fail(at) == [si |-> at, out |-> <<>>, err |-> TRUE]
    IN
    IF j = 4 THEN [si |-> si, out |-> QuantumBytes(dbuf, 4), err |-> FALSE]
    ELSE IF si > Len(src) THEN
        IF j = 0 THEN [si |-> si, out |-> <<>>, err |-> FALSE]
        ELSE IF j = 1 \/ padded THEN fail(si)
        ELSE [si |-> si, out |-> QuantumBytes(dbuf, j), err |-> FALSE]
    ELSE IF src[si] < 64 THEN decodeQuantum(padded, src, si + 1, Append(dbuf, src[si]))
    ELSE IF src[si] = NewLine THEN decodeQuantum(padded, src, si + 1, dbuf)
    ELSE IF ~padded \/ src[si] # PadChar THEN fail(si + 1)
    ELSE IF j < 2 THEN fail(si + 1)
    ELSE
        \* padding: "==" after 2 characters, "=" after 3, then nothing but new lines
        LET s2 == SkipNewLines(src, si + 1)
        IN  IF j = 2 /\ (s2 > Len(src) \/ src[s2] # PadChar) THEN fail(s2)
            ELSE LET s3 == SkipNewLines(src, IF j = 2 THEN s2 + 1 ELSE si + 1)
                 IN  [si |-> s3, out |-> QuantumBytes(dbuf, j), err |-> s3 <= Len(src)]

\* Encoding.Decode: quantum after quantum until the input ends or one fails.
RECURSIVE Decode(_, _, _, _)
Decode(padded, src, si, dst) ==
    IF si > Len(src) THEN [bytes |-> dst, err |-> FALSE]
    ELSE LET q == decodeQuantum(padded, src, si, <<>>)
         IN  IF q.err THEN [bytes |-> dst \o q.out, err |-> TRUE]
             ELSE Decode(padded, src, q.si, dst \o q.out)

\* base64.URLEncoding.DecodeString
URLDecodeString(s) == Decode(TRUE, s, 1, <<>>)

\* base64.RawURLEncoding.DecodeString
RawURLDecodeString(s) == Decode(FALSE, s, 1, <<>>)

----------------------------------------------------------------------------
(* token.go: the segment codec. *)

\* EncodeSegment through base64.URLEncoding, which pads.
EncodeSegment_Padded(s) == URLEncodeToString(s)

EncodeSegment(s) == RawURLEncodeToString(s)

\* DecodeSegment with strings.Repeat("=", l) for strings.Repeat("=", 4-l).
DecodeSegment_WrongPadCount(allowed, s) ==
    IF allowed THEN
        LET l == Len(s) % 4
        IN  URLDecodeString(IF l > 0 THEN s \o Repeat(PadChar, l) ELSE s)
    ELSE RawURLDecodeString(s)

\* DecodeSegment that takes the padded decoder whatever the flag says.
DecodeSegment_IgnoresFlag(allowed, s) ==
    LET l == Len(s) % 4
    IN  URLDecodeString(IF l > 0 THEN s \o Repeat(PadChar, 4 - l) ELSE s)

\* DecodeSegment(seg) reading the flag DecodePaddingAllowed = allowed.
DecodeSegment(allowed, s) ==
    IF allowed THEN
        LET l == Len(s) % 4
        IN  URLDecodeString(IF l > 0 THEN s \o Repeat(PadChar, 4 - l) ELSE s)
    ELSE RawURLDecodeString(s)

----------------------------------------------------------------------------
(* Values. *)

\* Errors are named by their kind; "" is nil.
NoError == ""

\* A header is map[string]interface{} over the keys the model uses; "" says
\* the key is absent.
NoHeader == [alg |-> "", kid |-> "", typ |-> ""]

\* A Claims value: its shape ("map" is MapClaims, "reg" a fixed-field record,
\* "unmarshalable" a Claims value json.Marshal rejects, "" nil) and its
\* fields, each <<>> when absent and <<v>> when present.
NoClaims == [shape |-> "", exp |-> <<>>, nbf |-> <<>>, iat |-> <<>>, foo |-> <<>>]

\* MapClaims{}
MapClaims == [NoClaims EXCEPT !.shape = "map"]

\* &RegisteredClaims{}
RegisteredClaims == [NoClaims EXCEPT !.shape = "reg"]

\* A *Token; nil says the pointer is nil.
NilToken ==
    [nil |-> TRUE, Raw |-> <<>>, Method |-> "", Header |-> NoHeader,
     Claims |-> NoClaims, Signature |-> <<>>, Valid |-> FALSE]

\* Key material is [kind, id]: a symmetric secret ("sym"), or one half
\* ("priv", "pub") of the asymmetric pair id.  NoKey is no key.
NoKey == [kind |-> "", id |-> 0]

----------------------------------------------------------------------------
(* encoding/json on headers and claims.  An object is '{', one byte per    *)
(* member (the byte names the key and the value), '}'.                     *)

LBrace == 123
RBrace == 125

AlgByte(alg) == CASE alg = "HS256" -> 65 [] alg = "RS256" -> 66 [] OTHER -> 67
KidByte(kid) == 75
TypByte(typ) == IF typ = "JWT" THEN 84 ELSE 85
ExpByte(t) == 16 + t
IatByte(t) == 32 + t
NbfByte(t) == 48 + t
FooByte(v) == 101

\* json.Marshal of a header: the keys of a map come out sorted.
MarshalHeader(h) ==
    <<LBrace>>
    \o (IF h.alg = "" THEN <<>> ELSE <<AlgByte(h.alg)>>)
    \o (IF h.kid = "" THEN <<>> ELSE <<KidByte(h.kid)>>)
    \o (IF h.typ = "" THEN <<>> ELSE <<TypByte(h.typ)>>)
    \o <<RBrace>>

\* json.Marshal of a Claims value.
MarshalClaims(c) ==
    IF c.shape \notin {"map", "reg"} THEN [bytes |-> <<>>, err |-> TRUE]
    ELSE [bytes |->
            <<LBrace>>
            \o (IF c.exp = <<>> THEN <<>> ELSE <<ExpByte(c.exp[1])>>)
            \o (IF c.foo = <<>> THEN <<>> ELSE <<FooByte(c.foo[1])>>)
            \o (IF c.iat = <<>> THEN <<>> ELSE <<IatByte(c.iat[1])>>)
            \o (IF c.nbf = <<>> THEN <<>> ELSE <<NbfByte(c.nbf[1])>>)
            \o <<RBrace>>,
          err |-> FALSE]

IsObject(bytes) ==
    Len(bytes) >= 2 /\ bytes[1] = LBrace /\ bytes[Len(bytes)] = RBrace

\* The members of a header object, a later member replacing an earlier one
\* of the same key; ok is FALSE when a byte is no member.
RECURSIVE HeaderMembers(_, _, _)
HeaderMembers(bytes, i, h) ==
    IF i >= Len(bytes) THEN [ok |-> TRUE, value |-> h]
    ELSE LET x == bytes[i] IN
         IF x = 65 THEN HeaderMembers(bytes, i + 1, [h EXCEPT !.alg = "HS256"])
         ELSE IF x = 66 THEN HeaderMembers(bytes, i + 1, [h EXCEPT !.alg = "RS256"])
         ELSE IF x = 67 THEN HeaderMembers(bytes, i + 1, [h EXCEPT !.alg = "XX"])
         ELSE IF x = 75 THEN HeaderMembers(bytes, i + 1, [h EXCEPT !.kid = "k1"])
         ELSE IF x = 84 THEN HeaderMembers(bytes, i + 1, [h EXCEPT !.typ = "JWT"])
         ELSE IF x = 85 THEN HeaderMembers(bytes, i + 1, [h EXCEPT !.typ = "JWS"])
         ELSE [ok |-> FALSE, value |-> h]

\* json decoding of the header segment into map[string]interface{}.
UnmarshalHeader(bytes) ==
    IF ~IsObject(bytes) THEN [ok |-> FALSE, value |-> NoHeader]
    ELSE HeaderMembers(bytes, 2, NoHeader)

\* The members of a claims object decoded into a value of c's shape: the
\* fixed-field record has no place for a member it does not name.
RECURSIVE ClaimsMembers(_, _, _)
ClaimsMembers(bytes, i, c) ==
    IF i >= Len(bytes) THEN [ok |-> TRUE, value |-> c]
    ELSE LET x == bytes[i] IN
         IF x \in 16..31 THEN ClaimsMembers(bytes, i + 1, [c EXCEPT !.exp = <<x - 16>>])
         ELSE IF x \in 32..47 THEN ClaimsMembers(bytes, i + 1, [c EXCEPT !.iat = <<x - 32>>])
         ELSE IF x \in 48..63 THEN ClaimsMembers(bytes, i + 1, [c EXCEPT !.nbf = <<x - 48>>])
         ELSE IF x = 101 THEN
             ClaimsMembers(bytes, i + 1, IF c.shape = "map" THEN [c EXCEPT !.foo = <<1>>] ELSE c)
         ELSE [ok |-> FALSE, value |-> c]

\* json decoding of the payload segment into the caller's Claims value.
UnmarshalClaims(bytes, target) ==
    IF ~IsObject(bytes) \/ target.shape \notin {"map", "reg"}
    THEN [ok |-> FALSE, value |-> target]
    ELSE ClaimsMembers(bytes, 2, target)

----------------------------------------------------------------------------
(* strings.Join and strings.Split on "." *)

Join2(x, y) == x \o <<Dot>> \o y

RECURSIVE Split(_, _, _)
Split(s, i, cur) ==
    IF i > Len(s) THEN <<cur>>
    ELSE IF s[i] = Dot THEN <<cur>> \o Split(s, i + 1, <<>>)
    ELSE Split(s, i + 1, Append(cur, s[i]))

\* strings.Split(s, ".")
SplitDots(s) == Split(s, 1, <<>>)

----------------------------------------------------------------------------
(* The SigningMethod capability.  The methods are not in token.go; they    *)
(* are modelled from their contract: a symmetric method (HS256) and an     *)
(* asymmetric one (RS256), the signature a one-byte keyed checksum of the  *)
(* signing input.                                                          *)

Methods == {"HS256", "RS256"}

\* method.Alg()
Alg(m) == m

\* The registry: the method of an algorithm identifier, "" when unknown.
GetSigningMethod(alg) == IF alg \in Methods THEN alg ELSE ""

RECURSIVE SumChars(_)
SumChars(s) == IF s = <<>> THEN 0 ELSE s[1] + SumChars(Tail(s))

\* The signature bytes of the signing input under a method and a key pair.
Mac(m, sstr, id) == <<(SumChars(sstr) * 3 + id * 89 + AlgByte(m) * 57) % 256>>

SignKeyFits(m, key) ==
    \/ m = "HS256" /\ key.kind = "sym"
    \/ m = "RS256" /\ key.kind = "priv"

VerifyKeyFits(m, key) ==
    \/ m = "HS256" /\ key.kind = "sym"
    \/ m = "RS256" /\ key.kind = "pub"

\* method.Sign(signingString, key): the signature as a segment.
Sign(m, sstr, key) ==
    IF SignKeyFits(m, key)
    THEN [sig |-> EncodeSegment(Mac(m, sstr, key.id)), err |-> NoError]
    ELSE [sig |-> <<>>, err |-> "SignError"]

\* method.verify(signingInput, signatureBytes, key)
Verify(m, sstr, sigBytes, key) ==
    IF ~VerifyKeyFits(m, key) THEN "KeyTypeError"
    ELSE IF sigBytes = Mac(m, sstr, key.id) THEN NoError
    ELSE "SignatureInvalidError"

----------------------------------------------------------------------------
(* The Claims validation capability, with zero leeway: every violated rule *)
(* is collected.                                                           *)

Violations(c, now) ==
    {r \in {"exp", "nbf", "iat"} :
        \/ r = "exp" /\ c.exp # <<>> /\ c.exp[1] < now
        \/ r = "nbf" /\ c.nbf # <<>> /\ c.nbf[1] > now
        \/ r = "iat" /\ c.iat # <<>> /\ c.iat[1] > now}

\* Claims.validate(now)
Validate(c, now) == IF Violations(c, now) = {} THEN NoError ELSE "ClaimsInvalidError"

----------------------------------------------------------------------------
(* token.go: building and signing a token. *)

\* NewWithClaims that marks the new token valid.
NewWithClaims_Valid(method, claims) ==
    [nil |-> FALSE, Raw |-> <<>>, Method |-> method,
     Header |-> [alg |-> Alg(method), kid |-> "", typ |-> "JWT"],
     Claims |-> claims, Signature |-> <<>>, Valid |-> TRUE]

\* NewWithClaims that leaves "typ" out of the header.
NewWithClaims_NoTyp(method, claims) ==
    [nil |-> FALSE, Raw |-> <<>>, Method |-> method,
     Header |-> [alg |-> Alg(method), kid |-> "", typ |-> ""],
     Claims |-> claims, Signature |-> <<>>, Valid |-> FALSE]

NewWithClaims(method, claims) ==
    [nil |-> FALSE, Raw |-> <<>>, Method |-> method,
     Header |-> [alg |-> Alg(method), kid |-> "", typ |-> "JWT"],
     Claims |-> claims, Signature |-> <<>>, Valid |-> FALSE]

New(method) == NewWithClaims(method, MapClaims)

\* t.SigningString(): the string, the error, and t as the call leaves it.
SigningString(t) ==
    LET header == EncodeSegment(MarshalHeader(t.Header))
        cj == MarshalClaims(t.Claims)
    IN  IF cj.err THEN [str |-> <<>>, err |-> "MarshalError", t |-> t]
        ELSE [str |-> Join2(header, EncodeSegment(cj.bytes)), err |-> NoError, t |-> t]

\* t.SignedString(key)
SignedString(t, key) ==
    LET ss == SigningString(t) IN
    IF ss.err # NoError THEN [str |-> <<>>, err |-> ss.err, t |-> ss.t]
    ELSE LET sg == Sign(ss.t.Method, ss.str, key) IN
         IF sg.err # NoError THEN [str |-> <<>>, err |-> sg.err, t |-> ss.t]
         ELSE [str |-> Join2(ss.str, sg.sig), err |-> NoError, t |-> ss.t]

----------------------------------------------------------------------------
(* The parser options (ParserOption), each applied to a *Parser. *)

\* &Parser{} ; ValidMethods is <<>> when nil and <<list>> when set.
ZeroParser ==
    [nil |-> FALSE, ValidMethods |-> <<>>, UseJSONNumber |-> FALSE,
     SkipClaimsValidation |-> FALSE]

NilParser == [ZeroParser EXCEPT !.nil = TRUE]

\* WithValidMethods whose closure forgets the assignment.
WithValidMethods_Dropped(methods, p) == p

WithValidMethods(methods, p) == [p EXCEPT !.ValidMethods = <<methods>>]

\* WithJSONNumber whose closure sets the field of the option below it.
WithJSONNumber_SetsSkip(p) == [p EXCEPT !.SkipClaimsValidation = TRUE]

WithJSONNumber(p) == [p EXCEPT !.UseJSONNumber = TRUE]

WithoutClaimsValidation(p) == [p EXCEPT !.SkipClaimsValidation = TRUE]

\* A ParserOption value applied to p.
ApplyParserOption(o, p) ==
    CASE o.name = "WithValidMethods" -> WithValidMethods(o.methods, p)
      [] o.name = "WithJSONNumber" -> WithJSONNumber(p)
      [] OTHER -> WithoutClaimsValidation(p)

RECURSIVE ApplyParserOptions(_, _)
ApplyParserOptions(options, p) ==
    IF options = <<>> THEN p
    ELSE ApplyParserOptions(Tail(options), ApplyParserOption(Head(options), p))

\* NewParser(options...)
NewParser(options) == ApplyParserOptions(options, ZeroParser)

----------------------------------------------------------------------------
(* The Parser's verification pipeline.  env is what the call reads from    *)
(* its surroundings: the padding flag, the clock, and diag, whether this   *)
(* parser hands back the partly parsed token when it fails before the      *)
(* signature check (the specification allows either).  kf is what the      *)
(* caller's Keyfunc does: the key it returns, or that it fails.            *)

Stages == <<"decode", "header", "claims", "method", "keyfunc", "verify", "validate">>

Result(t, e, n, seen) == [token |-> t, err |-> e, log |-> SubSeq(Stages, 1, n), seen |-> seen]

\* p.ParseWithClaims(tokenString, claims, keyFunc)
Parser_ParseWithClaims(p, tokenString, claims, kf, env) ==
    LET parts == SplitDots(tokenString)
        early(t) == IF env.diag THEN t ELSE NilToken
        t0 == [NilToken EXCEPT !.nil = FALSE, !.Raw = tokenString]
    IN
    IF Len(parts) # 3 THEN Result(early(t0), "MalformedTokenError", 1, NilToken)
    ELSE
    LET hb == DecodeSegment(env.allowed, parts[1])
        cb == DecodeSegment(env.allowed, parts[2])
        sb == DecodeSegment(env.allowed, parts[3])
    IN
    IF hb.err \/ cb.err \/ sb.err THEN Result(early(t0), "MalformedTokenError", 1, NilToken)
    ELSE
    LET hj == UnmarshalHeader(hb.bytes)
        t1 == [t0 EXCEPT !.Header = hj.value]
    IN
    IF ~hj.ok THEN Result(early(t0), "MalformedTokenError", 2, NilToken)
    ELSE
    LET cj == UnmarshalClaims(cb.bytes, claims)
        t2 == [t1 EXCEPT !.Claims = cj.value]
        alg == t1.Header.alg
        permitted == p.ValidMethods = <<>> \/ alg \in Range(p.ValidMethods[1])
        method == GetSigningMethod(alg)
        t3 == [t2 EXCEPT !.Method = method]
        t4 == [t3 EXCEPT !.Signature = parts[3]]
    IN
    IF ~cj.ok THEN Result(early(t1), "MalformedTokenError", 3, NilToken)
    ELSE IF alg = "" \/ ~permitted \/ method = "" THEN
        Result(early(t2), "UnverifiableError", 4, NilToken)
    ELSE IF kf.err THEN Result(early(t3), "UnverifiableError", 5, t3)
    ELSE IF Verify(method, Join2(parts[1], parts[2]), sb.bytes, kf.key) # NoError THEN
        Result(t4, "SignatureInvalidError", 6, t3)
    ELSE IF p.SkipClaimsValidation THEN
        Result([t4 EXCEPT !.Valid = TRUE], NoError, 6, t3)
    ELSE IF Validate(t4.Claims, env.now) # NoError THEN
        Result(t4, "ClaimsInvalidError", 7, t3)
    ELSE Result([t4 EXCEPT !.Valid = TRUE], NoError, 7, t3)

\* p.Parse(tokenString, keyFunc)
Parser_Parse(p, tokenString, kf, env) ==
    Parser_ParseWithClaims(p, tokenString, MapClaims, kf, env)

----------------------------------------------------------------------------
(* token.go: the package-level parse functions. *)

Parse(tokenString, kf, options, env) ==
    Parser_Parse(NewParser(options), tokenString, kf, env)

ParseWithClaims(tokenString, claims, kf, options, env) ==
    Parser_ParseWithClaims(NewParser(options), tokenString, claims, kf, env)

----------------------------------------------------------------------------
(* request/request.go *)

\* WithClaims(claims) applied to the fromRequestParser p
WithClaims(claims, p) == [p EXCEPT !.claims = claims]

\* WithParser(parser) applied to the fromRequestParser p
WithParser(pr, p) == [p EXCEPT !.parser = pr]

ApplyRequestOption(o, p) ==
    IF o.name = "WithClaims" THEN WithClaims(o.claims, p) ELSE WithParser(o.parser, p)

RECURSIVE ApplyRequestOptions(_, _)
ApplyRequestOptions(options, p) ==
    IF options = <<>> THEN p
    ELSE ApplyRequestOptions(Tail(options), ApplyRequestOption(Head(options), p))

\* ParseFromRequest that parses with a fresh Parser, whatever WithParser set.
ParseFromRequest_FreshParser(extract, kf, options, env) ==
    LET p == ApplyRequestOptions(options, [claims |-> NoClaims, parser |-> NilParser])
        claims == IF p.claims.shape = "" THEN MapClaims ELSE p.claims
    IN  IF extract.err # NoError
        THEN [token |-> NilToken, err |-> extract.err, log |-> <<>>, seen |-> NilToken]
        ELSE Parser_ParseWithClaims(ZeroParser, extract.str, claims, kf, env)

\* ParseFromRequest(req, extractor, keyFunc, options...); extract is what
\* extractor.ExtractToken(req) returns.
ParseFromRequest(extract, kf, options, env) ==
    LET p0 == ApplyRequestOptions(options, [claims |-> NoClaims, parser |-> NilParser])
        p1 == IF p0.claims.shape = "" THEN [p0 EXCEPT !.claims = MapClaims] ELSE p0
        p == IF p1.parser.nil THEN [p1 EXCEPT !.parser = ZeroParser] ELSE p1
    IN  IF extract.err # NoError
        THEN [token |-> NilToken, err |-> extract.err, log |-> <<>>, seen |-> NilToken]
        ELSE Parser_ParseWithClaims(p.parser, extract.str, p.claims, kf, env)

\* ParseFromRequestWithClaims(req, extractor, claims, keyFunc)
ParseFromRequestWithClaims(extract, claims, kf, env) ==
    ParseFromRequest(extract, kf,
                     <<[name |-> "WithClaims", claims |-> claims, parser |-> NilParser]>>, env)

----------------------------------------------------------------------------
(* The calling program and the token strings it meets. *)

Times == 0..MaxTime

\* The claim payloads tokens are issued with.
ClaimsSample ==
    {MapClaims, [MapClaims EXCEPT !.foo = <<1>>], RegisteredClaims,
     [MapClaims EXCEPT !.iat = <<MaxTime>>],
     [RegisteredClaims EXCEPT !.exp = <<0>>, !.nbf = <<MaxTime>>, !.iat = <<MaxTime>>]}
    \cup {[MapClaims EXCEPT !.exp = <<t>>] : t \in Times}
    \cup {[MapClaims EXCEPT !.nbf = <<t>>] : t \in Times}

\* The keys callers sign with and Keyfuncs return.
SignKeySample == {[kind |-> "sym", id |-> 1], [kind |-> "priv", id |-> 1]}
KeySample ==
    {[kind |-> "sym", id |-> 1], [kind |-> "sym", id |-> 2],
     [kind |-> "pub", id |-> 1], [kind |-> "pub", id |-> 2],
     [kind |-> "priv", id |-> 1]}
KeyfuncSample ==
    {[key |-> k, err |-> FALSE] : k \in KeySample} \cup {[key |-> NoKey, err |-> TRUE]}

\* The key a producer signs with under method m.
SigningKey(m) == [kind |-> IF m = "HS256" THEN "sym" ELSE "priv", id |-> 1]

\* The key that verifies what key signed.
VerifyingKey(key) == IF key.kind = "priv" THEN [key EXCEPT !.kind = "pub"] ELSE key

\* The parser options a caller passes: an allow-list or none, and the two switches.
ParserOption(name, methods) == [name |-> name, methods |-> methods]
OptionChoices == [methods : {<<>>, <<<<"HS256">>>>, <<<<"RS256">>>>}, number : BOOLEAN, skip : BOOLEAN]
OptionList(o) ==
    (IF o.methods = <<>> THEN <<>> ELSE <<ParserOption("WithValidMethods", o.methods[1])>>)
    \o (IF o.number THEN <<ParserOption("WithJSONNumber", <<>>)>> ELSE <<>>)
    \o (IF o.skip THEN <<ParserOption("WithoutClaimsValidation", <<>>)>> ELSE <<>>)

NoWire ==
    [origin |-> "", header |-> NoHeader, claims |-> NoClaims, method |-> "",
     key |-> NoKey, padded |-> FALSE, mangle |-> "none", err |-> NoError]

NoCall ==
    [name |-> "", options |-> <<>>, asked |-> [methods |-> <<>>, number |-> FALSE, skip |-> FALSE],
     kf |-> [key |-> NoKey, err |-> FALSE], claims |-> NoClaims,
     extract |-> [str |-> <<>>, err |-> NoError], withClaims |-> FALSE,
     withParser |-> FALSE, diag |-> FALSE]

NoResult == [token |-> NilToken, err |-> NoError, log |-> <<>>, seen |-> NilToken]

NoDecoded == [of |-> "", src |-> <<>>, bytes |-> <<>>, err |-> FALSE]

Env(diag) == [allowed |-> DecodePaddingAllowed, now |-> TimeFunc, diag |-> diag]

\* A token string another producer made: any header, the payload and the
\* signature of a method of its choice, padded or not.
Forged(h, c, m, padded) ==
    LET enc(x) == IF padded THEN URLEncodeToString(x) ELSE RawURLEncodeToString(x)
        sstr == Join2(enc(MarshalHeader(h)), enc(MarshalClaims(c).bytes))
    IN  Join2(sstr, enc(Mac(m, sstr, 1)))

ForgedHeaders ==
    [alg : {"HS256", "RS256", "XX", ""}, kid : {""}, typ : {"JWT", ""}]
ForgedClaims == {MapClaims, [MapClaims EXCEPT !.exp = <<0>>]}

\* A token string damaged on its way: the signature segment cut off, the
\* signature changed, or the header segment replaced by bytes that are no JSON.
Mangled(s, kind) ==
    LET parts == SplitDots(s) IN
    CASE kind = "dropsig" -> Join2(parts[1], parts[2])
      [] kind = "flipsig" ->
            Join2(Join2(parts[1], parts[2]),
                  [parts[3] EXCEPT ![1] = (parts[3][1] + 1) % 64])
      [] OTHER -> Join2(Join2(EncodeSegment(<<1, 2>>), parts[2]), parts[3])

----------------------------------------------------------------------------
(* The token life cycle. *)

Init ==
    /\ DecodePaddingAllowed \in BOOLEAN
    /\ TimeFunc \in 1..(MaxTime - 1)
    /\ pc = "start"
    /\ tok = NilToken
    /\ wire = <<>>
    /\ wireInfo = NoWire
    /\ call = NoCall
    /\ res = NoResult
    /\ b = <<>>
    /\ seg = <<>>
    /\ encoded = <<>>
    /\ decoded = NoDecoded

\* token := New(method)
NewStep ==
    /\ pc = "start"
    /\ \E m \in Methods : tok' = New(m)
    /\ pc' = "built"
    /\ UNCHANGED <<DecodePaddingAllowed, TimeFunc, wire, wireInfo, call, res, codecVars>>

\* token := NewWithClaims(method, claims)
NewWithClaimsStep ==
    /\ pc = "start"
    /\ \E m \in Methods, c \in ClaimsSample \cup {[NoClaims EXCEPT !.shape = "unmarshalable"]} :
           tok' = NewWithClaims(m, c)
    /\ pc' = "built"
    /\ UNCHANGED <<DecodePaddingAllowed, TimeFunc, wire, wireInfo, call, res, codecVars>>

\* token.Header["kid"] = "k1": the caller adds a header field before signing.
SetHeaderStep ==
    /\ pc = "built"
    /\ tok.Header.kid = ""
    /\ tok' = [tok EXCEPT !.Header.kid = "k1"]
    /\ UNCHANGED <<DecodePaddingAllowed, TimeFunc, pc, wire, wireInfo, call, res, codecVars>>

\* s, err := token.SignedString(key)
SignedStringStep ==
    /\ pc = "built"
    /\ \E key \in SignKeySample :
        LET r == SignedString(tok, key) IN
        /\ tok' = r.t
        /\ wire' = r.str
        /\ wireInfo' = [NoWire EXCEPT !.origin = "signed", !.header = tok.Header,
                                      !.claims = tok.Claims, !.method = tok.Method,
                                      !.key = key, !.err = r.err]
        /\ pc' = IF r.err = NoError THEN "wired" ELSE "signfailed"
    /\ UNCHANGED <<DecodePaddingAllowed, TimeFunc, call, res, codecVars>>

\* A token string arrives that another producer made.
ForgeStep ==
    /\ pc = "start"
    /\ \E h \in ForgedHeaders, c \in ForgedClaims, m \in Methods, padded \in BOOLEAN :
        /\ wire' = Forged(h, c, m, padded)
        /\ wireInfo' = [NoWire EXCEPT !.origin = "forged", !.header = h, !.claims = c,
                                      !.method = m, !.key = SigningKey(m),
                                      !.padded = padded]
    /\ pc' = "wired"
    /\ UNCHANGED <<DecodePaddingAllowed, TimeFunc, tok, call, res, codecVars>>

\* The signed string is damaged before it is parsed.
MangleStep ==
    /\ pc = "wired"
    /\ wireInfo.origin = "signed"
    /\ wireInfo.mangle = "none"
    /\ \E kind \in {"dropsig", "flipsig", "badjson"} :
        /\ wire' = Mangled(wire, kind)
        /\ wireInfo' = [wireInfo EXCEPT !.mangle = kind]
    /\ UNCHANGED <<DecodePaddingAllowed, TimeFunc, pc, tok, call, res, codecVars>>

\* token, err := Parse(tokenString, keyFunc, options...)
ParseStep ==
    /\ pc = "wired"
    /\ \E o \in OptionChoices, kf \in KeyfuncSample, diag \in BOOLEAN :
        /\ call' = [NoCall EXCEPT !.name = "Parse", !.options = OptionList(o), !.asked = o,
                                  !.kf = kf, !.claims = MapClaims, !.diag = diag]
        /\ res' = Parse(wire, kf, OptionList(o), Env(diag))
    /\ pc' = "done"
    /\ UNCHANGED <<DecodePaddingAllowed, TimeFunc, tok, wire, wireInfo, codecVars>>

\* token, err := ParseWithClaims(tokenString, &RegisteredClaims{}, keyFunc, options...)
ParseWithClaimsStep ==
    /\ pc = "wired"
    /\ \E o \in OptionChoices, kf \in KeyfuncSample, diag \in BOOLEAN :
        /\ call' = [NoCall EXCEPT !.name = "ParseWithClaims", !.options = OptionList(o),
                                  !.asked = o, !.kf = kf, !.claims = RegisteredClaims,
                                  !.diag = diag]
        /\ res' = ParseWithClaims(wire, RegisteredClaims, kf, OptionList(o), Env(diag))
    /\ pc' = "done"
    /\ UNCHANGED <<DecodePaddingAllowed, TimeFunc, tok, wire, wireInfo, codecVars>>

\* The options of a ParseFromRequest call.
RequestOptions(withClaims, withParser, o) ==
    (IF withClaims
     THEN <<[name |-> "WithClaims", claims |-> RegisteredClaims, parser |-> NilParser]>>
     ELSE <<>>)
    \o (IF withParser
        THEN <<[name |-> "WithParser", claims |-> NoClaims, parser |-> NewParser(OptionList(o))]>>
        ELSE <<>>)

\* What the extractor finds in the request: the token string, or nothing.
Extracts == {[str |-> wire, err |-> NoError], [str |-> <<>>, err |-> "ErrNoTokenInRequest"]}

\* token, err := request.ParseFromRequest(req, extractor, keyFunc, options...)
ParseFromRequestStep ==
    /\ pc = "wired"
    /\ \E withClaims \in BOOLEAN, withParser \in BOOLEAN, kf \in KeyfuncSample,
          diag \in BOOLEAN, extract \in Extracts :
        \E o \in IF withParser THEN OptionChoices ELSE {NoCall.asked} :
        /\ call' = [NoCall EXCEPT !.name = "ParseFromRequest", !.options = OptionList(o),
                                  !.asked = o, !.kf = kf,
                                  !.claims = IF withClaims THEN RegisteredClaims ELSE NoClaims,
                                  !.extract = extract, !.withClaims = withClaims,
                                  !.withParser = withParser, !.diag = diag]
        /\ res' = ParseFromRequest(extract, kf, RequestOptions(withClaims, withParser, o),
                                   Env(diag))
    /\ pc' = "done"
    /\ UNCHANGED <<DecodePaddingAllowed, TimeFunc, tok, wire, wireInfo, codecVars>>

\* token, err := request.ParseFromRequestWithClaims(req, extractor, claims, keyFunc)
ParseFromRequestWithClaimsStep ==
    /\ pc = "wired"
    /\ \E kf \in KeyfuncSample, diag \in BOOLEAN, extract \in Extracts :
        /\ call' = [NoCall EXCEPT !.name = "ParseFromRequestWithClaims", !.kf = kf,
                                  !.claims = RegisteredClaims, !.extract = extract,
                                  !.withClaims = TRUE, !.diag = diag]
        /\ res' = ParseFromRequestWithClaims(extract, RegisteredClaims, kf, Env(diag))
    /\ pc' = "done"
    /\ UNCHANGED <<DecodePaddingAllowed, TimeFunc, tok, wire, wireInfo, codecVars>>

Next ==
    \/ NewStep
    \/ NewWithClaimsStep
    \/ SetHeaderStep
    \/ SignedStringStep
    \/ ForgeStep
    \/ MangleStep
    \/ ParseStep
    \/ ParseWithClaimsStep
    \/ ParseFromRequestStep
    \/ ParseFromRequestWithClaimsStep

Spec == Init /\ [][Next]_vars

----------------------------------------------------------------------------
(* The segment codec on its own. *)

CodecInit ==
    /\ DecodePaddingAllowed \in BOOLEAN
    /\ TimeFunc = 1
    /\ pc = "codec"
    /\ tok = NilToken
    /\ wire = <<>>
    /\ wireInfo = NoWire
    /\ call = NoCall
    /\ res = NoResult
    /\ \/ b \in SeqsUpTo(ByteSample, MaxBytes) /\ seg = <<>>
       \/ b = <<>> /\ seg \in SeqsUpTo(CharSample, MaxSegLen)
    /\ encoded = <<>>
    /\ decoded = NoDecoded

\* encoded := EncodeSegment(b)
EncodeStep ==
    /\ encoded' = <<EncodeSegment(b)>>
    /\ UNCHANGED <<DecodePaddingAllowed, tokenVars, b, seg, decoded>>

\* DecodeSegment(s), s drawn from: what EncodeSegment made of b ("encoded"),
\* the padded encoding of b ("padded"), any segment ("seg").
DecodeStep(of, s) ==
    /\ decoded' = [of |-> of, src |-> s] @@ DecodeSegment(DecodePaddingAllowed, s)
    /\ UNCHANGED <<DecodePaddingAllowed, tokenVars, b, seg, encoded>>

DecodeEncodedStep == encoded # <<>> /\ DecodeStep("encoded", encoded[1])

DecodePaddedStep == DecodeStep("padded", URLEncodeToString(b))

DecodeSegStep == DecodeStep("seg", seg)

CodecNext ==
    \/ EncodeStep
    \/ DecodeEncodedStep
    \/ DecodePaddedStep
    \/ DecodeSegStep

SpecCodec == CodecInit /\ [][CodecNext]_vars

----------------------------------------------------------------------------
(* What the properties below say about a finished call, read off how the   *)
(* token string was made and what the caller passed.                       *)

\* A parse call ran: the request adapter got a string from its extractor.
ParseRan == pc = "done" /\ call.extract.err = NoError

\* The stages that ran, counted by name.
StageRuns(name) == Cardinality({i \in 1..Len(res.log) : res.log[i] = name})

\* The string has three segments that decode in the current padding mode.
Decodable ==
    /\ wireInfo.mangle # "dropsig"
    /\ wireInfo.padded => DecodePaddingAllowed

\* The header is JSON and names a known algorithm the caller's allow-list admits.
AlgPermitted ==
    /\ wireInfo.mangle # "badjson"
    /\ wireInfo.header.alg \in Methods
    /\ call.asked.methods = <<>> \/ wireInfo.header.alg \in Range(call.asked.methods[1])

\* The Keyfunc returns the key that verifies the producer's signature, the
\* signature is the one the producer made, under the method the header names.
Authentic ==
    /\ ~call.kf.err
    /\ call.kf.key = VerifyingKey(wireInfo.key)
    /\ wireInfo.mangle = "none"
    /\ wireInfo.header.alg = wireInfo.method

\* The Claims shape the call decodes into.
TargetShape == IF call.claims.shape = "" THEN "map" ELSE call.claims.shape

SameTimes(c, d) == c.exp = d.exp /\ c.nbf = d.nbf /\ c.iat = d.iat

----------------------------------------------------------------------------
(* C1 *)

\* C1 as stated: Valid is true only on a token that a parse call returned
\* with no error after the signature authenticated and the claims
\* validation ran and passed; a token built by New / NewWithClaims is not
\* valid, signing does not make it so, and a parse call that returns an
\* error returns no token or one that is not valid.
C1_ValidOnlyAfterValidation ==
    /\ ~tok.Valid
    /\ res.token.Valid =>
          /\ pc = "done" /\ res.err = NoError /\ ~res.token.nil
          /\ StageRuns("verify") = 1 /\ StageRuns("validate") = 1
    /\ res.err # NoError => res.token.nil \/ ~res.token.Valid

\* C1 amended: as C1, but the claims validation is the configured one: with
\* WithoutClaimsValidation a token is valid once its signature has
\* authenticated, and Claims.validate never ran.
C1_ValidOnlyAfterParse ==
    /\ ~tok.Valid
    /\ res.token.Valid =>
          /\ pc = "done" /\ res.err = NoError /\ ~res.token.nil
          /\ StageRuns("verify") = 1
          /\ \/ StageRuns("validate") = 1 /\ Violations(res.token.Claims, TimeFunc) = {}
             \/ StageRuns("validate") = 0 /\ call.asked.skip
    /\ res.err # NoError => res.token.nil \/ ~res.token.Valid

\* A token built and signed by this program comes back valid from a parse
\* that skipped the claims validation, the built token still not valid.
C1_Witness ==
    /\ pc = "done" /\ wireInfo.origin = "signed" /\ ~tok.nil /\ ~tok.Valid
    /\ res.token.Valid /\ call.asked.skip

----------------------------------------------------------------------------
(* C2 *)

\* C2: under WithValidMethods(list), a parse of a token whose header alg is
\* not in the list fails with UnverifiableError before the Keyfunc and the
\* signature check run, and the token is not valid, whatever key the
\* Keyfunc would return.
C2_AllowList ==
    (/\ ParseRan /\ Decodable /\ wireInfo.mangle # "badjson"
     /\ call.asked.methods # <<>>
     /\ wireInfo.header.alg \notin Range(call.asked.methods[1]))
    => /\ res.err = "UnverifiableError"
       /\ ~res.token.Valid
       /\ StageRuns("keyfunc") = 0 /\ StageRuns("verify") = 0

\* An HS256 token this program signed, parsed under WithValidMethods({"RS256"})
\* with the Keyfunc returning the very key that signed it.
C2_Witness ==
    /\ ParseRan /\ wireInfo.origin = "signed" /\ wireInfo.mangle = "none"
    /\ wireInfo.header.alg = "HS256" /\ call.asked.methods = <<<<"RS256">>>>
    /\ Authentic
    /\ res.err = "UnverifiableError"

----------------------------------------------------------------------------
(* C3 *)

----------------------------------------------------------------------------
(* C4 *)

\* C4: what EncodeSegment makes of b decodes back to b with no error in
\* either padding mode; EncodeSegment's output is 4 characters for every 3
\* bytes, rounded up, all of the base64url alphabet and none of them '='.
C4_CodecRoundTrip ==
    /\ decoded.of = "encoded" => ~decoded.err /\ decoded.bytes = b
    /\ encoded # <<>> =>
          /\ Range(encoded[1]) \subseteq 0..63
          /\ Len(encoded[1]) = (4 * Len(b) + 2) \div 3

\* Legacy mode decodes an encoding that it had to pad by two characters.
C4_Witness ==
    /\ decoded.of = "encoded" /\ DecodePaddingAllowed
    /\ Len(b) = MaxBytes /\ Len(decoded.src) % 4 = 2
    /\ decoded.bytes = b

----------------------------------------------------------------------------
(* C5 *)

\* C5: the padded encoding of b fails to decode in standard mode and decodes
\* to b in legacy mode, as any segment holding '=' fails in standard mode;
\* the unpadded encoding of b decodes to b in both modes, and any segment
\* free of '=' and of new lines decodes alike in both.
C5_PaddingModes ==
    /\ (decoded.of = "padded" /\ PadChar \in Range(decoded.src)) =>
          IF DecodePaddingAllowed THEN ~decoded.err /\ decoded.bytes = b
          ELSE decoded.err
    /\ (decoded.of = "seg" /\ PadChar \in Range(seg) /\ ~DecodePaddingAllowed) => decoded.err
    /\ decoded.of = "encoded" => ~decoded.err /\ decoded.bytes = b
    /\ (decoded.of = "seg" /\ PadChar \notin Range(seg) /\ NewLine \notin Range(seg)) =>
          LET other == DecodeSegment(~DecodePaddingAllowed, seg)
          IN  decoded.err = other.err /\ (~decoded.err => decoded.bytes = other.bytes)

\* Legacy mode decodes a padded segment.
C5_Witness ==
    /\ decoded.of = "padded" /\ PadChar \in Range(decoded.src)
    /\ DecodePaddingAllowed /\ ~decoded.err /\ decoded.bytes = b /\ Len(b) = MaxBytes

\* Not part of C5: a segment free of '=' decodes alike in both modes.  New
\* lines break it: the decoders skip them, DecodeSegment counts them.
UnpaddedDecodesAlike ==
    (decoded.of = "seg" /\ PadChar \notin Range(seg)) =>
        decoded.err = DecodeSegment(~DecodePaddingAllowed, seg).err

----------------------------------------------------------------------------
(* C6 *)

\* C6 as stated: every parse call invokes the Keyfunc exactly once, with a
\* token whose header and claims are populated, whose method is resolved
\* and which is not valid.
C6_KeyfuncExactlyOnce ==
    ParseRan =>
        /\ StageRuns("keyfunc") = 1
        /\ ~res.seen.nil /\ res.seen.Header.alg # "" /\ res.seen.Claims.shape # ""
        /\ res.seen.Method # "" /\ ~res.seen.Valid

\* C6 amended: a parse call invokes the Keyfunc at most once: once when the
\* token string decodes, its header and claims parse and its alg names a
\* known method the allow-list admits, and not at all otherwise; the token
\* it is invoked with has the string's header and claims, the method of its
\* alg, and is not valid.
C6_KeyfuncOncePastMethod ==
    pc = "done" =>
        /\ StageRuns("keyfunc") <= 1
        /\ StageRuns("keyfunc") = 1 <=> (ParseRan /\ Decodable /\ AlgPermitted)
        /\ res.seen.nil <=> StageRuns("keyfunc") = 0
        /\ StageRuns("keyfunc") = 1 =>
              /\ res.seen.Raw = wire
              /\ res.seen.Header = wireInfo.header
              /\ res.seen.Claims.shape = TargetShape
              /\ SameTimes(res.seen.Claims, wireInfo.claims)
              /\ res.seen.Method = GetSigningMethod(wireInfo.header.alg)
              /\ ~res.seen.Valid

\* The Keyfunc was invoked once, on a token carrying a header field and a
\* claim, and failed.
C6_Witness ==
    /\ ParseRan /\ StageRuns("keyfunc") = 1 /\ call.kf.err
    /\ res.seen.Header.kid = "k1" /\ res.seen.Claims.exp = <<MaxTime>>
    /\ res.err = "UnverifiableError"

----------------------------------------------------------------------------
(* C7 *)

\* C7: when the signature authenticates, the claims fail validation and
\* WithoutClaimsValidation was not passed, the parse returns
\* ClaimsInvalidError and a token that is not nil and not valid, with the
\* string's header and claims.
C7_ClaimsInvalidKeepsToken ==
    (/\ ParseRan /\ Decodable /\ AlgPermitted /\ Authentic
     /\ ~call.asked.skip
     /\ Violations(wireInfo.claims, TimeFunc) # {})
    => /\ res.err = "ClaimsInvalidError"
       /\ ~res.token.nil /\ ~res.token.Valid
       /\ res.token.Header = wireInfo.header
       /\ res.token.Claims.shape = TargetShape
       /\ SameTimes(res.token.Claims, wireInfo.claims)

\* An expired token of this program's, one time unit past its exp.
C7_Witness ==
    /\ ParseRan /\ wireInfo.origin = "signed" /\ Authentic
    /\ wireInfo.claims.exp = <<TimeFunc - 1>>
    /\ res.err = "ClaimsInvalidError" /\ ~res.token.nil /\ ~res.token.Valid

----------------------------------------------------------------------------
(* C8 *)

\* C8 as stated: the header of a token built by New / NewWithClaims, and of
\* a token a parse call returned with no error, holds typ = "JWT" and alg =
\* the identifier of the token's method.
C8_HeaderAlwaysTypAlg ==
    /\ ~tok.nil => tok.Header.typ = "JWT" /\ tok.Header.alg = Alg(tok.Method)
    /\ (pc = "done" /\ res.err = NoError) =>
          res.token.Header.typ = "JWT" /\ res.token.Header.alg = Alg(res.token.Method)

\* C8 amended: a token built by New / NewWithClaims holds typ = "JWT" and
\* alg = its method's identifier; a token the Parser returned with its
\* method resolved holds alg = its method's identifier and the header
\* fields of the token string, no more: typ only if the string carries it.
C8_HeaderIssuedOrParsed ==
    /\ ~tok.nil => tok.Header.typ = "JWT" /\ tok.Header.alg = Alg(tok.Method)
    /\ (~res.token.nil /\ res.token.Method # "") =>
          /\ res.token.Header.alg = Alg(res.token.Method)
          /\ res.token.Header = wireInfo.header
    /\ (wireInfo.origin = "signed" /\ ~res.token.nil /\ res.token.Method # "") =>
          res.token.Header = tok.Header

\* A token string with no typ in its header parses to a valid token.
C8_Witness ==
    /\ pc = "done" /\ res.err = NoError /\ res.token.Valid
    /\ res.token.Header.typ = "" /\ res.token.Header.alg = "HS256"

----------------------------------------------------------------------------
(* C9 *)

\* The Parser and the Claims a ParseFromRequest call ends up parsing with.
RequestParser == IF call.withParser THEN NewParser(call.options) ELSE ZeroParser
RequestClaims == IF call.withClaims THEN call.claims ELSE MapClaims

\* C9: ParseFromRequest returns what ParseWithClaims of the configured
\* parser returns for the extracted string, the claims defaulting to
\* MapClaims{} and the parser to &Parser{}; when the extractor fails it
\* returns nil and the extractor's error, and neither the parser nor the
\* Keyfunc runs.
C9_RequestIsParse ==
    (pc = "done" /\ call.name \in {"ParseFromRequest", "ParseFromRequestWithClaims"}) =>
        IF call.extract.err # NoError
        THEN /\ res.token.nil /\ res.err = call.extract.err
             /\ res.log = <<>> /\ res.seen.nil
        ELSE res = Parser_ParseWithClaims(RequestParser, call.extract.str, RequestClaims,
                                          call.kf, Env(call.diag))

\* ParseFromRequest with both options returns what only a parser that skips
\* the claims validation, decoding into the caller's claims, returns.
C9_Witness ==
    /\ pc = "done" /\ call.name = "ParseFromRequest"
    /\ call.withParser /\ call.withClaims /\ call.asked.skip
    /\ Violations(wireInfo.claims, TimeFunc) # {}
    /\ res.token.Valid /\ res.token.Claims.shape = "reg"

----------------------------------------------------------------------------
(* C10 *)

====
